---- MODULE Spec2Model ----
(***************************************************************************)
(* Model of scripts/plot_bench.py: the CSV loader (load_csvs), the         *)
(* aggregator (summarize, ci95) and the derived metrics computed inside    *)
(* plot_speedup and plot_roofline, driven by main.                         *)
(*                                                                         *)
(* Numbers.  The floating-point columns are held in fixed point with a     *)
(* resolution of 1/40: the value 1.0 is the integer 40.  With raw values   *)
(* that are whole numbers, every median (a half) and every 2.5 / 97.5      *)
(* percentile (a multiple of 1/40 for groups of up to 40 samples) is then  *)
(* an exact integer.  Seconds are held in units of 1e-12 s (times 40), so  *)
(* that the factor 1e-9 of summarize is the multiplication by 1000 of      *)
(* SecOfNs.  Rounding of IEEE doubles is not modelled.  Ratios (speedup,   *)
(* intensity) are reduced fractions.                                       *)
(***************************************************************************)
EXTENDS Integers, Sequences, FiniteSets, TLC

VARIABLES
    pc,        \* position of main / of the calling harness
    csvs,      \* args.csvs: the sources given on the command line
    baseline,  \* args.baseline
    roofline,  \* args.roofline, as its ':'-separated fields
    i,         \* index of the next source in load_csvs' loop
    frames,    \* load_csvs: frames read so far
    df,        \* the unified sample sequence (None before it exists)
    summary,   \* the rows returned by summarize
    figures,   \* the image files written so far
    speedup,   \* what plot_speedup drew: [base, comp]
    points,    \* what plot_roofline scattered: the intensity points
    log,       \* lines printed on stdout
    err,       \* the exception that ended the run, or None
    prev,      \* harness: the summary of the previous call
    via        \* harness: how the current df was obtained

vars == <<pc, csvs, baseline, roofline, i, frames, df, summary, figures,
          speedup, points, log, err, prev, via>>

None == "None"

----------------------------------------------------------------------------
(* Bounds of the model.                                                    *)

MaxSources == 2
MaxSamples == 3
MaxOrderLen == 5

----------------------------------------------------------------------------
(* Generic helpers.                                                        *)

Range(s) == {s[k] : k \in 1..Len(s)}

SeqsUpTo(S, n) == UNION {[1..k -> S] : k \in 0..n}

Abs(a) == IF a < 0 THEN -a ELSE a

RECURSIVE Gcd(_, _)
Gcd(a, b) == IF b = 0 THEN a ELSE Gcd(b, a % b)

\* Lexicographic "strictly less" on two integer tuples of the same length.
RECURSIVE LexLess(_, _)
LexLess(a, b) ==
    IF Len(a) = 0 THEN FALSE
    ELSE IF Head(a) # Head(b) THEN Head(a) < Head(b)
    ELSE LexLess(Tail(a), Tail(b))

\* Insert element e into the sequence s, sorted by keyOf, after every element
\* whose key is not greater (a stable insertion).
InsertByKey(s, e, keyOf) ==
    LET p == Cardinality({j \in 1..Len(s) : ~LexLess(keyOf[e], keyOf[s[j]])})
    IN SubSeq(s, 1, p) \o <<e>> \o SubSeq(s, p + 1, Len(s))

\* Stable sort of the sequence s by the integer-tuple key keyOf[e].
SortByKey(s, keyOf) ==
    LET sorted[k \in 0..Len(s)] ==
            IF k = 0 THEN <<>> ELSE InsertByKey(sorted[k - 1], s[k], keyOf)
    IN sorted[Len(s)]

\* The elements of s in order of first occurrence, duplicates removed.
Unique(s) ==
    LET u[k \in 0..Len(s)] ==
            IF k = 0 THEN <<>>
            ELSE IF s[k] \in Range(u[k - 1]) THEN u[k - 1] ELSE Append(u[k - 1], s[k])
    IN u[Len(s)]

\* Ascending sort of a sequence of integers.
SortInts(x) == SortByKey(x, [v \in Range(x) |-> <<v>>])

----------------------------------------------------------------------------
(* Strings are compared as Python compares them; StrOrder lists the        *)
(* strings of the model in that (code point) order.                        *)

StrOrder == <<"f32", "f64", "matmul_blocked", "matmul_naive">>

Rank(s) == CHOOSE k \in 1..Len(StrOrder) : StrOrder[k] = s

----------------------------------------------------------------------------
(* Raw samples.  Only the columns the script reads are carried; timestamp, *)
(* reps and checksum are required to be present but never read.            *)

Sample(op, dtype, size, M, N, K, ns, gflops, gbps) ==
    [op |-> op, dtype |-> dtype, size |-> size, M |-> M, N |-> N, K |-> K,
     ns_per_rep |-> ns, gflops |-> gflops, gbps |-> gbps]

\* The samples the inputs are drawn from (floats in 1/40 fixed point).
Samples ==
    { Sample("matmul_naive",   "f32", 100,  0,  0, 0, 320,  80, 40),
      Sample("matmul_naive",   "f32", 100,  0,  0, 0, 640, 40,  0),
      Sample("matmul_blocked", "f32", 100,  0,  0, 0, 80, 320, 80),
      Sample("matmul_blocked", "f64",   0,  2,  3, 4, 160,   0,  0),
      Sample("matmul_blocked", "f32",   0,  0,  0, 0, 120, 120, 40),
      Sample("matmul_naive",   "f64",  24,  2,  3, 5, 320,  40, 80),
      Sample("matmul_blocked", "f32",  -1,  0,  3, 4, 120,  80,  0),
      Sample("matmul_naive",   "f32",   0, -2,  3, 4, 160, 200, 40),
      Sample("matmul_blocked", "f64",  -5, 10, 10, 1, 80,  40, 120) }

\* Five repetitions of one group, with gflops 1, 2, 3, 4, 5, and one sample of
\* another group.
OrderSamples ==
    { Sample("matmul_naive", "f32", 1024, 0, 0, 0, 80 * v, 40 * v, 40 * (6 - v))
        : v \in 1..5 }
    \cup { Sample("matmul_blocked", "f32", 1024, 0, 0, 0, 40, 280, 80) }

----------------------------------------------------------------------------
(* ci95 and the order statistics it uses.                                  *)

\* Variant of Median that takes the middle of the values as they come.
Median_unsorted(x) ==
    LET n == Len(x)
    IN IF n % 2 = 1 THEN x[(n + 1) \div 2]
       ELSE (x[n \div 2] + x[n \div 2 + 1]) \div 2

\* np.median: the middle of the sorted values, or the mean of the two middle.
Median(x) ==
    LET s == SortInts(x)
        n == Len(s)
    IN IF n % 2 = 1 THEN s[(n + 1) \div 2]
       ELSE (s[n \div 2] + s[n \div 2 + 1]) \div 2

\* np.quantile(x, q / 1000) with linear interpolation between the order
\* statistics around the virtual index (n - 1) * q / 1000.
Quantile(x, q) ==
    LET s == SortInts(x)
        n == Len(s)
        j == ((n - 1) * q) \div 1000
        g == ((n - 1) * q) % 1000
    IN IF g = 0 THEN s[j + 1]
       ELSE s[j + 1] + ((s[j + 2] - s[j + 1]) * g) \div 1000

\* Variant of ci95 that returns the two percentiles themselves, for any length.
ci95_abs(x) == <<Quantile(x, 25), Quantile(x, 975)>>

\* ci95: (0, 0) below two values, else the offsets of the 2.5 and 97.5
\* percentiles from the median.
ci95(x) ==
    IF Len(x) < 2 THEN <<0, 0>>
    ELSE LET lo == Quantile(x, 25)
             hi == Quantile(x, 975)
             med == Median(x)
         IN <<med - lo, hi - med>>

----------------------------------------------------------------------------
(* summarize.                                                              *)

\* Variant of SecOfNs without the factor.
SecOfNs_forgot(x) == x

\* x * 1e-9: nanoseconds to seconds (seconds are held in units of 1e-12 s).
SecOfNs(x) == x * 1000

Column(g, c) == [k \in 1..Len(g) |-> g[k][c]]

\* Variant of Resolve whose mask is size <= 0 alone.
Resolve_nomask(d) ==
    [k \in 1..Len(d) |->
        IF d[k].size <= 0
        THEN [d[k] EXCEPT !.size = d[k].M * d[k].N * d[k].K]
        ELSE d[k]]

\* Lines 37-38: the size of a sample with size <= 0 and M > 0 becomes M*N*K.
Resolve(d) ==
    [k \in 1..Len(d) |->
        IF d[k].size <= 0 /\ d[k].M > 0
        THEN [d[k] EXCEPT !.size = d[k].M * d[k].N * d[k].K]
        ELSE d[k]]

GroupKey(r) == <<r.op, r.size, r.dtype>>

\* df.groupby(["op","size","dtype"]): the distinct keys in ascending order of
\* (op, size, dtype), each with its rows in their order in d.
GroupBy(d) ==
    LET keys == Unique([k \in 1..Len(d) |-> GroupKey(d[k])])
        keyOf == [key \in Range(keys) |-> <<Rank(key[1]), key[2], Rank(key[3])>>]
        sorted == SortByKey(keys, keyOf)
    IN [k \in 1..Len(sorted) |->
          [key |-> sorted[k],
           g |-> SelectSeq(d, LAMBDA r : GroupKey(r) = sorted[k])]]

\* Lines 42-52: the row of one group.
SummaryRow(key, g) ==
    LET cg == ci95(Column(g, "gflops"))
        cb == ci95(Column(g, "gbps"))
        ns == Column(g, "ns_per_rep")
        ct == ci95([k \in 1..Len(ns) |-> SecOfNs(ns[k])])
    IN [op |-> key[1], size |-> key[2], dtype |-> key[3],
        gflops |-> Median(Column(g, "gflops")), gflops_lo |-> cg[1], gflops_hi |-> cg[2],
        gbps |-> Median(Column(g, "gbps")), gbps_lo |-> cb[1], gbps_hi |-> cb[2],
        t |-> SecOfNs(Median(ns)), t_lo |-> ct[1], t_hi |-> ct[2]]

\* Variant of SortValues that leaves the rows in groupby's order.
SortValues_groupOrder(rows) == rows

\* Line 54: sort_values(["op","dtype","size"]).
SortValues(rows) ==
    SortByKey(rows, [r \in Range(rows) |-> <<Rank(r.op), Rank(r.dtype), r.size>>])

\* summarize(df): the rows, or the KeyError that sort_values raises on the
\* column-less frame built from an empty list of rows.
summarize(d) ==
    LET groups == GroupBy(Resolve(d))
        rows == [k \in 1..Len(groups) |-> SummaryRow(groups[k].key, groups[k].g)]
    IN IF Len(rows) = 0
       THEN [raised |-> "KeyError", rows |-> <<>>]
       ELSE [raised |-> None, rows |-> SortValues(rows)]

----------------------------------------------------------------------------
(* Derived metrics: plot_speedup and plot_roofline.                        *)

\* Variant of Div that divides b by a.
Div_swapped(a, b) ==
    IF a = 0
    THEN [kind |-> IF b > 0 THEN "inf" ELSE IF b < 0 THEN "-inf" ELSE "nan",
          num |-> 0, den |-> 0]
    ELSE LET g == Gcd(Abs(a), Abs(b))
             sg == IF a < 0 THEN -1 ELSE 1
         IN [kind |-> "num", num |-> (sg * b) \div g, den |-> (sg * a) \div g]

\* Float division a / b: a reduced fraction, or inf / -inf / nan when b is 0.
Div(a, b) ==
    IF b = 0
    THEN [kind |-> IF a > 0 THEN "inf" ELSE IF a < 0 THEN "-inf" ELSE "nan",
          num |-> 0, den |-> 0]
    ELSE LET g == Gcd(Abs(a), Abs(b))
             sg == IF b < 0 THEN -1 ELSE 1
         IN [kind |-> "num", num |-> (sg * a) \div g, den |-> (sg * b) \div g]

\* The distinct values of column c of the rows, ascending (groupby(c)).
GroupValues(rows, c) ==
    LET vals == Unique(Column(rows, c))
    IN SortByKey(vals, [v \in Range(vals) |-> <<Rank(v)>>])

SortBySize(rows) == SortByKey(rows, [r \in Range(rows) |-> <<r.size>>])

\* pd.merge(gg[size,dtype,t], base, on=[size,dtype], how="inner"): one row per
\* matching pair, in the order of the left rows.
RECURSIVE Merge(_, _)
Merge(gg, base) ==
    IF Len(gg) = 0 THEN <<>>
    ELSE LET l == Head(gg)
             hits == SelectSeq(base, LAMBDA b : b.size = l.size /\ b.dtype = l.dtype)
         IN [k \in 1..Len(hits) |->
               [size |-> l.size, dtype |-> l.dtype, t |-> l.t, t_base |-> hits[k].t_base]]
            \o Merge(Tail(gg), base)

RECURSIVE Flatten(_)
Flatten(ss) == IF Len(ss) = 0 THEN <<>> ELSE Head(ss) \o Flatten(Tail(ss))

\* plot_speedup(df, baseline_op): the baseline lines at speedup 1, the
\* comparison series, and whether the "no rows for baseline" warning is printed.
plot_speedup(rows, baseline_op) ==
    LET baseRows == SelectSeq(rows, LAMBDA r : r.op = baseline_op)
        base == [k \in 1..Len(baseRows) |->
                   [size |-> baseRows[k].size, dtype |-> baseRows[k].dtype,
                    t_base |-> baseRows[k].t]]
        baseDtypes == GroupValues(base, "dtype")
        lines == [k \in 1..Len(baseDtypes) |->
                   LET bb == SortBySize(SelectSeq(base, LAMBDA b : b.dtype = baseDtypes[k]))
                   IN [op |-> baseline_op, dtype |-> baseDtypes[k],
                       pts |-> [n \in 1..Len(bb) |-> [size |-> bb[n].size, y |-> 1]]]]
        ops == SelectSeq(GroupValues(rows, "op"), LAMBDA o : o # baseline_op)
        SeriesOf(o) ==
            LET g == SelectSeq(rows, LAMBDA r : r.op = o)
                dts == GroupValues(g, "dtype")
                One(dt) ==
                    LET gg == SelectSeq(g, LAMBDA r : r.dtype = dt)
                        merged == Merge(gg, SelectSeq(base, LAMBDA b : b.dtype = dt))
                    IN IF Len(merged) = 0 THEN <<>>
                       ELSE << [op |-> o, dtype |-> dt,
                                pts |-> [n \in 1..Len(merged) |->
                                           [size |-> merged[n].size,
                                            spd |-> Div(merged[n].t_base, merged[n].t)]]] >>
            IN Flatten([k \in 1..Len(dts) |-> One(dts[k])])
    IN [warn |-> Len(base) = 0,
        base |-> lines,
        comp |-> Flatten([k \in 1..Len(ops) |-> SeriesOf(ops[k])])]

\* Variant of Finite without the dropna.
Finite_noDrop(x) == TRUE

\* Line 148: what replace([inf, -inf], nan).dropna() keeps.
Finite(x) == x.kind = "num"

\* Lines 146-150 of plot_roofline: per (op, dtype), gflops / gbps with inf and
\* -inf replaced by nan and nan dropped; each kept point carries the index of
\* its row and that row's gflops.

plot_roofline(rows) ==
    LET idx == [k \in 1..Len(rows) |-> [at |-> k, row |-> rows[k]]]
        ops == GroupValues(rows, "op")
        SeriesOf(o) ==
            LET g == SelectSeq(idx, LAMBDA e : e.row.op = o)
                dts == GroupValues([k \in 1..Len(g) |-> g[k].row], "dtype")
                One(dt) ==
                    LET gg == SelectSeq(g, LAMBDA e : e.row.dtype = dt)
                        inten == [k \in 1..Len(gg) |->
                                    [at |-> gg[k].at,
                                     v |-> Div(gg[k].row.gflops, gg[k].row.gbps)]]
                        kept == SelectSeq(inten, LAMBDA e : Finite(e.v))
                    IN [op |-> o, dtype |-> dt,
                        pts |-> [k \in 1..Len(kept) |->
                                   [at |-> kept[k].at, inten |-> kept[k].v,
                                    perf |-> rows[kept[k].at].gflops]]]
            IN [k \in 1..Len(dts) |-> One(dts[k])]
    IN Flatten([k \in 1..Len(ops) |-> SeriesOf(ops[k])])

----------------------------------------------------------------------------
(* load_csvs.                                                              *)

need == <<"timestamp", "op", "M", "N", "K", "size", "dtype", "reps",
          "ns_per_rep", "gflops", "gbps", "checksum">>

\* Variant of Missing that reports the first missing column only.
Missing_first(columns) ==
    LET m == SelectSeq(need, LAMBDA c : c \notin columns)
    IN IF Len(m) = 0 THEN m ELSE <<m[1]>>

\* missing = [c for c in need if c not in df.columns]
Missing(columns) == SelectSeq(need, LAMBDA c : c \notin columns)

\* pd.concat(frames, ignore_index=True)
Concat(fs) == Flatten(fs)

\* The rows of a file that has only the given columns.
Project(rows, columns) ==
    [k \in 1..Len(rows) |->
        [c \in (DOMAIN rows[k]) \cap columns |-> rows[k][c]]]

AllColumns == Range(need)

\* The sources the command line can name.
Files ==
    { [name |-> "naive.csv", columns |-> AllColumns,
       rows |-> << Sample("matmul_naive", "f32", 100, 0, 0, 0, 320, 80, 40),
                   Sample("matmul_naive", "f32", 100, 0, 0, 0, 640, 40, 0),
                   Sample("matmul_naive", "f64", 24, 2, 3, 5, 320, 40, 80) >>],
      [name |-> "blocked.csv", columns |-> AllColumns \cup {"host"},
       rows |-> << Sample("matmul_blocked", "f32", 100, 0, 0, 0, 80, 320, 80),
                   Sample("matmul_blocked", "f64", -5, 10, 10, 1, 80, 40, 120),
                   Sample("matmul_blocked", "f64", 0, 2, 3, 4, 160, 0, 0) >>],
      [name |-> "single.csv", columns |-> AllColumns,
       rows |-> << Sample("matmul_blocked", "f32", 0, 0, 0, 0, 120, 120, 40) >>],
      [name |-> "empty.csv", columns |-> AllColumns, rows |-> << >>],
      [name |-> "old.csv", columns |-> AllColumns \ {"gbps", "checksum"},
       rows |-> Project(<< Sample("matmul_naive", "f32", 100, 0, 0, 0, 320, 80, 40) >>,
                        AllColumns \ {"gbps", "checksum"})],
      [name |-> "noop.csv", columns |-> AllColumns \ {"op"},
       rows |-> << >>] }

----------------------------------------------------------------------------
(* main.                                                                   *)

NoError == [type |-> "None", source |-> "", missing |-> <<>>]

\* args.roofline.split(":") and float(): the fields of each argument value and
\* the values float() accepts.
Split(a) ==
    CASE a = "220:60" -> <<"220", "60">>
      [] a = "220" -> <<"220">>
      [] a = "fast:60" -> <<"fast", "60">>
      [] OTHER -> <<a>>

IsFloat(f) == f \in {"220", "60"}

BaselineArgs == {"", "matmul_naive", "matmul_ref"}

RooflineArgs == {"", "220:60", "220", "fast:60"}

Init ==
    /\ pc = "load"
    /\ csvs \in UNION {[1..k -> Files] : k \in 1..MaxSources}
    /\ baseline \in BaselineArgs
    /\ roofline \in RooflineArgs
    /\ i = 1
    /\ frames = <<>>
    /\ df = <<>>
    /\ summary = <<>>
    /\ figures = {}
    /\ speedup = <<>>
    /\ points = <<>>
    /\ log = <<>>
    /\ err = NoError
    /\ prev = <<>>
    /\ via = "main"

\* One iteration of the loop of load_csvs (lines 21-30).
LoadCsv ==
    /\ pc = "load"
    /\ i <= Len(csvs)
    /\ LET p == csvs[i]
           missing == Missing(p.columns)
       IN IF Len(missing) > 0
          THEN /\ err' = [type |-> "SystemExit", source |-> p.name, missing |-> missing]
               /\ pc' = "exited"
               /\ UNCHANGED <<i, frames>>
          ELSE /\ frames' = Append(frames, p.rows)
               /\ i' = i + 1
               /\ UNCHANGED <<pc, err>>
    /\ UNCHANGED <<csvs, baseline, roofline, df, summary, figures, speedup, points,
                   log, prev, via>>

\* Line 32: load_csvs returns the concatenation; main goes on to summarize.
LoadReturn ==
    /\ pc = "load"
    /\ i > Len(csvs)
    /\ df' = <<Concat(frames)>>
    /\ pc' = "summarize"
    /\ UNCHANGED <<csvs, baseline, roofline, i, frames, summary, figures, speedup,
                   points, log, err, prev, via>>

\* Line 177: summary = summarize(df).
Summarize ==
    /\ pc = "summarize"
    /\ \E r \in {summarize(df[1])} :
          IF r.raised # None
          THEN /\ err' = [type |-> r.raised, source |-> "summarize", missing |-> <<>>]
               /\ pc' = "exited"
               /\ UNCHANGED summary
          ELSE /\ summary' = r.rows
               /\ pc' = "plot_gflops"
               /\ UNCHANGED err
    /\ UNCHANGED <<csvs, baseline, roofline, i, frames, df, figures, speedup, points,
                   log, prev, via>>

\* plot_metric: one figure per op, named <metric>_<op>.png.
PlotMetric(metric, next) ==
    /\ figures' = figures \cup {<<metric, r.op>> : r \in Range(summary)}
    /\ pc' = next
    /\ UNCHANGED <<csvs, baseline, roofline, i, frames, df, summary, speedup, points,
                   log, err, prev, via>>

PlotGflops == pc = "plot_gflops" /\ PlotMetric("gflops", "plot_gbps")

PlotGbps == pc = "plot_gbps" /\ PlotMetric("gbps", "speedup")

\* Lines 182-183.
PlotSpeedup ==
    /\ pc = "speedup"
    /\ IF baseline # ""
       THEN \E r \in {plot_speedup(summary, baseline)} :
               /\ speedup' = <<r>>
               /\ log' = IF r.warn THEN Append(log, "[warn] no rows for baseline") ELSE log
               /\ figures' = figures \cup {<<"speedup_vs", baseline>>}
       ELSE UNCHANGED <<speedup, log, figures>>
    /\ pc' = "roofline"
    /\ UNCHANGED <<csvs, baseline, roofline, i, frames, df, summary, points, err,
                   prev, via>>

\* Lines 185-190.
PlotRoofline ==
    /\ pc = "roofline"
    /\ IF roofline # ""
       THEN LET f == Split(roofline)
            IN IF Len(f) = 2 /\ IsFloat(f[1]) /\ IsFloat(f[2])
               THEN /\ points' = <<plot_roofline(summary)>>
                    /\ figures' = figures \cup {<<"roofline", "">>}
                    /\ UNCHANGED log
               ELSE /\ log' = Append(log, "[warn] --roofline expects 'GFLOPS:GBPS'")
                    /\ UNCHANGED <<points, figures>>
       ELSE UNCHANGED <<points, figures, log>>
    /\ pc' = "finish"
    /\ UNCHANGED <<csvs, baseline, roofline, i, frames, df, summary, speedup, err,
                   prev, via>>

\* Line 192.
Finish ==
    /\ pc = "finish"
    /\ log' = Append(log, "[ok] wrote figures")
    /\ pc' = "done"
    /\ UNCHANGED <<csvs, baseline, roofline, i, frames, df, summary, figures,
                   speedup, points, err, prev, via>>

Next ==
    \/ LoadCsv
    \/ LoadReturn
    \/ Summarize
    \/ PlotGflops
    \/ PlotGbps
    \/ PlotSpeedup
    \/ PlotRoofline
    \/ Finish

Spec == Init /\ [][Next]_vars

----------------------------------------------------------------------------
(* The aggregator and the derived metrics called directly, as a test       *)
(* harness calls them: on any frame of samples, on a reordering of the     *)
(* frame, and on summarize's own rows fed back as single samples.          *)

\* t * 1e9: seconds (units of 1e-12 s) back to nanoseconds.
NsOfSec(t) == t \div 1000

\* A summary row as a raw sample: its key and its medians, no dimensions.
AsSample(r) ==
    Sample(r.op, r.dtype, r.size, 0, 0, 0, NsOfSec(r.t), r.gflops, r.gbps)

Swap(d, a, b) ==
    [k \in 1..Len(d) |-> IF k = a THEN d[b] ELSE IF k = b THEN d[a] ELSE d[k]]

HarnessInit(inputs) ==
    /\ pc = "call"
    /\ df \in {<<d>> : d \in inputs}
    /\ csvs = <<>>
    /\ baseline = ""
    /\ roofline = ""
    /\ i = 1
    /\ frames = <<>>
    /\ summary = <<>>
    /\ figures = {}
    /\ speedup = <<>>
    /\ points = <<>>
    /\ log = <<>>
    /\ err = NoError
    /\ prev = <<>>
    /\ via = "input"

InitAgg == HarnessInit(SeqsUpTo(Samples, MaxSamples))

InitOrder == HarnessInit(SeqsUpTo(OrderSamples, MaxOrderLen))

CallSummarize ==
    /\ pc = "call"
    /\ \E r \in {summarize(df[1])} :
          /\ summary' = r.rows
          /\ err' = IF r.raised # None
                    THEN [type |-> r.raised, source |-> "summarize", missing |-> <<>>]
                    ELSE NoError
    /\ pc' = "returned"
    /\ UNCHANGED <<csvs, baseline, roofline, i, frames, df, figures, speedup, points,
                   log, prev, via>>

\* summarize is called again on the same samples in another order: two
\* neighbours are exchanged (every order is reached by such exchanges).
Reorder ==
    /\ pc = "returned"
    /\ err = NoError
    /\ \E a \in 1..(Len(df[1]) - 1) :
          /\ df[1][a] # df[1][a + 1]
          /\ df' = <<Swap(df[1], a, a + 1)>>
    /\ prev' = <<summary>>
    /\ via' = "perm"
    /\ pc' = "call"
    /\ summary' = <<>>
    /\ speedup' = <<>>
    /\ points' = <<>>
    /\ baseline' = ""
    /\ UNCHANGED <<csvs, roofline, i, frames, figures, log, err>>

\* summarize is called again on its own rows.
Refeed ==
    /\ pc = "returned"
    /\ err = NoError
    /\ df' = <<[k \in 1..Len(summary) |-> AsSample(summary[k])]>>
    /\ prev' = <<summary>>
    /\ via' = "refeed"
    /\ pc' = "call"
    /\ summary' = <<>>
    /\ speedup' = <<>>
    /\ points' = <<>>
    /\ baseline' = ""
    /\ UNCHANGED <<csvs, roofline, i, frames, figures, log, err>>

\* The speedup computation on the summary, against any baseline name.
CallSpeedup ==
    /\ pc = "returned"
    /\ err = NoError
    /\ speedup = <<>>
    /\ \E b \in {"matmul_naive", "matmul_blocked", "matmul_ref"} :
          /\ baseline' = b
          /\ speedup' = <<plot_speedup(summary, b)>>
    /\ UNCHANGED <<pc, csvs, roofline, i, frames, df, summary, figures, points, log,
                   err, prev, via>>

\* The roofline points of the summary.
CallRoofline ==
    /\ pc = "returned"
    /\ err = NoError
    /\ points = <<>>
    /\ points' = <<plot_roofline(summary)>>
    /\ UNCHANGED <<pc, csvs, baseline, roofline, i, frames, df, summary, figures,
                   speedup, log, err, prev, via>>

NextAgg ==
    \/ CallSummarize
    \/ Reorder
    \/ Refeed
    \/ CallSpeedup
    \/ CallRoofline

SpecAgg == InitAgg /\ [][NextAgg]_vars

NextOrder ==
    \/ CallSummarize
    \/ Reorder

SpecOrder == InitOrder /\ [][NextOrder]_vars

----------------------------------------------------------------------------
(* Properties.  They are stated from the samples themselves, not through   *)
(* the operators of the model above.                                       *)

\* The size a sample is to be grouped under: M*N*K when size <= 0 and M > 0.
ExpectedSize(s) == IF s.size <= 0 /\ s.M > 0 THEN s.M * s.N * s.K ELSE s.size

ExpectedKey(s) == <<s.op, ExpectedSize(s), s.dtype>>

RowKey(r) == <<r.op, r.size, r.dtype>>

\* The positions of the samples of d that belong to the group of row r.
Members(d, r) == {k \in 1..Len(d) : ExpectedKey(d[k]) = RowKey(r)}

\* The k-th smallest of the values x[j], j in the set of positions J.
OrderStat(x, J, k) ==
    CHOOSE v \in {x[j] : j \in J} :
        /\ Cardinality({j \in J : x[j] < v}) < k
        /\ k <= Cardinality({j \in J : x[j] <= v})

\* Twice the middle order statistic (the sum of the two middle ones when the
\* count is even).
TwiceMiddle(x, J) ==
    LET n == Cardinality(J)
    IN IF n % 2 = 1 THEN 2 * OrderStat(x, J, (n + 1) \div 2)
       ELSE OrderStat(x, J, n \div 2) + OrderStat(x, J, n \div 2 + 1)

Returned == pc = "returned" /\ err = NoError

IntervalsZero(r) ==
    /\ r.gflops_lo = 0 /\ r.gflops_hi = 0
    /\ r.gbps_lo = 0 /\ r.gbps_hi = 0
    /\ r.t_lo = 0 /\ r.t_hi = 0

\* C1: whenever summarize has been called on a sample sequence (the empty one
\* included) it has returned, without raising, exactly one row per distinct
\* (op, size, dtype) triple after size resolution, and every sample's triple
\* has its row.
C1_OneRowPerTriple ==
    pc = "returned" =>
        /\ err = NoError
        /\ Len(summary) = Cardinality({ExpectedKey(df[1][k]) : k \in 1..Len(df[1])})
        /\ \A k \in 1..Len(df[1]) :
              \E n \in 1..Len(summary) : RowKey(summary[n]) = ExpectedKey(df[1][k])

\* C2: when some source lacks a required column, load_csvs never gets past the
\* first such source and never returns a dataset; once it has failed, the error
\* is a SystemExit naming that source and exactly its missing required
\* columns, and nothing downstream of the load has run.
C2_SchemaErrorAborts ==
    LET bad == {k \in 1..Len(csvs) : ~(Range(need) \subseteq csvs[k].columns)}
    IN (via = "main" /\ bad # {}) =>
        LET first == CHOOSE k \in bad : \A m \in bad : k <= m
        IN /\ pc \in {"load", "exited"}
           /\ i <= first
           /\ df = <<>> /\ summary = <<>> /\ figures = {}
           /\ pc = "exited" =>
                /\ err.type = "SystemExit"
                /\ err.source = csvs[first].name
                /\ Range(err.missing) = Range(need) \ csvs[first].columns
                /\ Len(err.missing) = Cardinality(Range(err.missing))
                /\ Len(frames) = first - 1

\* C2 witness: the load failed on a source with two missing columns after a
\* valid source had been read.
C2_Witness ==
    /\ pc = "exited"
    /\ err.type = "SystemExit"
    /\ Len(err.missing) = 2
    /\ Len(frames) = 1
    /\ Len(frames[1]) > 0

\* The comparative rows drawn by plot_speedup, as (op, dtype, size, speedup).
CompRows ==
    UNION { { [op |-> speedup[1].comp[k].op, dtype |-> speedup[1].comp[k].dtype,
               size |-> speedup[1].comp[k].pts[n].size,
               spd |-> speedup[1].comp[k].pts[n].spd, series |-> k, at |-> n]
              : n \in 1..Len(speedup[1].comp[k].pts) }
            : k \in 1..Len(speedup[1].comp) }

\* C3: after the speedup computation, a non-baseline summary row has a
\* comparative row iff a baseline row with the same (size, dtype) exists, it
\* has exactly one, and its speedup is t_baseline / t; no other comparative row
\* exists, in particular none for the baseline operation; nothing is raised.
C3_SpeedupJoin ==
    (via # "main" /\ speedup # <<>>) =>
        LET rows == Range(summary)
            BaseOf(r) == {b \in rows : b.op = baseline /\ b.size = r.size /\ b.dtype = r.dtype}
            CompOf(r) == {c \in CompRows : c.op = r.op /\ c.dtype = r.dtype /\ c.size = r.size}
        IN /\ err = NoError
           /\ \A r \in rows :
                IF r.op = baseline \/ BaseOf(r) = {}
                THEN CompOf(r) = {}
                ELSE /\ Cardinality(CompOf(r)) = 1
                     /\ \A c \in CompOf(r) : \A b \in BaseOf(r) :
                          /\ c.spd.kind = "num"
                          /\ c.spd.num * r.t = c.spd.den * b.t
           /\ \A c \in CompRows :
                \E r \in rows : r.op = c.op /\ r.dtype = c.dtype /\ r.size = c.size

\* C3 witness: a candidate four times as fast as its baseline row has the
\* comparative row with speedup 4, and another candidate row has no baseline row.
C3_Witness ==
    /\ via # "main" /\ speedup # <<>>
    /\ baseline = "matmul_naive"
    /\ \E c \in CompRows : c.spd = [kind |-> "num", num |-> 4, den |-> 1]
    /\ \E r \in Range(summary) :
          /\ r.op # baseline
          /\ ~ \E b \in Range(summary) :
                 b.op = baseline /\ b.size = r.size /\ b.dtype = r.dtype

\* C4: summarize groups every sample with size <= 0 and M > 0 under M*N*K and
\* every other sample under its own size: the rows' keys are exactly the
\* samples' keys with that size, and each row's medians are those of exactly
\* the samples that resolve to its key.
C4_SizeResolution ==
    Returned =>
        LET d == df[1]
        IN /\ {RowKey(summary[n]) : n \in 1..Len(summary)}
                = {ExpectedKey(d[k]) : k \in 1..Len(d)}
           /\ \A n \in 1..Len(summary) :
                /\ 2 * summary[n].gflops = TwiceMiddle(Column(d, "gflops"), Members(d, summary[n]))
                /\ 2 * summary[n].gbps = TwiceMiddle(Column(d, "gbps"), Members(d, summary[n]))

\* C4 witness: size=0, M=2, N=3, K=4 was grouped under 24, and size=0, M=0
\* and a negative size with M=0 stayed as they were.
C4_Witness ==
    /\ Returned /\ via = "input"
    /\ \E k \in 1..Len(df[1]) :
          /\ df[1][k].size = 0 /\ df[1][k].M = 2 /\ df[1][k].N = 3 /\ df[1][k].K = 4
          /\ \E n \in 1..Len(summary) :
                RowKey(summary[n]) = <<df[1][k].op, 24, df[1][k].dtype>>
    /\ \E k \in 1..Len(df[1]) :
          /\ df[1][k].size <= 0 /\ df[1][k].M <= 0
          /\ \E n \in 1..Len(summary) :
                RowKey(summary[n]) = <<df[1][k].op, df[1][k].size, df[1][k].dtype>>

\* The intensity points scattered by plot_roofline.
IntensityPoints ==
    UNION { { [op |-> points[1][k].op, dtype |-> points[1][k].dtype,
               at |-> points[1][k].pts[n].at, inten |-> points[1][k].pts[n].inten,
               perf |-> points[1][k].pts[n].perf, series |-> k, pos |-> n]
              : n \in 1..Len(points[1][k].pts) }
            : k \in 1..Len(points[1]) }

\* C5: after the roofline computation, a summary row with gbps = 0 has no
\* intensity point, whatever its gflops; every row with non-zero gbps has
\* exactly one, in the series of its (op, dtype), with intensity gflops / gbps
\* and its own gflops.
C5_RooflineExclusion ==
    (via # "main" /\ points # <<>>) =>
        \A k \in 1..Len(summary) :
            LET mine == {q \in IntensityPoints : q.at = k}
            IN IF summary[k].gbps = 0
               THEN mine = {}
               ELSE /\ Cardinality(mine) = 1
                    /\ \A q \in mine :
                         /\ q.op = summary[k].op /\ q.dtype = summary[k].dtype
                         /\ q.inten.kind = "num"
                         /\ q.inten.den # 0
                         /\ q.inten.num * summary[k].gbps = q.inten.den * summary[k].gflops
                         /\ q.perf = summary[k].gflops

\* C5 witness: the points were computed from a summary with a row of zero
\* gbps and zero gflops, a row of zero gbps and positive gflops, and a row
\* that is plotted.
C5_Witness ==
    /\ via # "main" /\ points # <<>>
    /\ \E r \in Range(summary) : r.gbps = 0 /\ r.gflops = 0
    /\ \E r \in Range(summary) : r.gbps = 0 /\ r.gflops > 0
    /\ IntensityPoints # {}

\* C6: every group of fewer than 2 samples has its row, and the three
\* intervals of that row are exactly (0, 0).
C6_SingleSampleIntervals ==
    pc = "returned" =>
        \A k \in 1..Len(df[1]) :
            LET same == {m \in 1..Len(df[1]) : ExpectedKey(df[1][m]) = ExpectedKey(df[1][k])}
            IN Cardinality(same) < 2 =>
                 /\ err = NoError
                 /\ \E n \in 1..Len(summary) : RowKey(summary[n]) = ExpectedKey(df[1][k])
                 /\ \A n \in 1..Len(summary) :
                      RowKey(summary[n]) = ExpectedKey(df[1][k]) => IntervalsZero(summary[n])

\* C6 witness: a single-sample group with non-zero metrics next to a group of
\* two samples whose interval is not zero.
C6_Witness ==
    /\ Returned /\ via = "input"
    /\ \E n \in 1..Len(summary) :
          /\ Cardinality(Members(df[1], summary[n])) = 1
          /\ summary[n].gflops > 0 /\ summary[n].gbps > 0
          /\ IntervalsZero(summary[n])
    /\ \E n \in 1..Len(summary) :
          /\ Cardinality(Members(df[1], summary[n])) = 2
          /\ summary[n].gflops_lo > 0

\* (op, dtype, size) of row a strictly before that of row b.
KeyBefore(a, b) ==
    \/ Rank(a.op) < Rank(b.op)
    \/ a.op = b.op /\ Rank(a.dtype) < Rank(b.dtype)
    \/ a.op = b.op /\ a.dtype = b.dtype /\ a.size < b.size

\* C7: the rows returned by summarize are in strictly ascending order of
\* (op, dtype, size), size compared as a number.
C7_RowsSorted ==
    Returned => \A n \in 1..(Len(summary) - 1) : KeyBefore(summary[n], summary[n + 1])

\* C7 witness: two consecutive rows of one op where the dtype ascends and the
\* size descends, and two where a negative size precedes a positive one.
C7_Witness ==
    /\ Returned
    /\ \E n \in 1..(Len(summary) - 1) :
          /\ summary[n].op = summary[n + 1].op
          /\ summary[n].dtype # summary[n + 1].dtype
          /\ summary[n].size > summary[n + 1].size
    /\ \E n \in 1..(Len(summary) - 1) :
          /\ summary[n].op = summary[n + 1].op
          /\ summary[n].dtype = summary[n + 1].dtype
          /\ summary[n].size < 0 /\ summary[n + 1].size > 0

\* C8: the only error that ends a run of main is the loader's schema error.
C8_OnlySchemaErrorHalts ==
    (via = "main" /\ pc = "exited") => err.type = "SystemExit"

C10_OrderIndependent ==
    Returned =>
        /\ via = "perm" => summary = prev[1]
        /\ \A n \in 1..Len(summary) :
              LET J == Members(df[1], summary[n])
              IN /\ 2 * summary[n].gflops = TwiceMiddle(Column(df[1], "gflops"), J)
                 /\ 2 * summary[n].gbps = TwiceMiddle(Column(df[1], "gbps"), J)
                 /\ 2 * summary[n].t = 1000 * TwiceMiddle(Column(df[1], "ns_per_rep"), J)

\* C10 witness: the values 1, 2, 3, 4, 5 of one group, reordered and not in
\* ascending order, with median 3.
C10_Witness ==
    /\ Returned /\ via = "perm"
    /\ Len(df[1]) = 5
    /\ {df[1][k].gflops : k \in 1..5} = {40, 80, 120, 160, 200}
    /\ df[1][1].gflops > df[1][2].gflops
    /\ df[1][3].gflops # 120
    /\ Len(summary) = 1
    /\ summary[1].gflops = 120

====
